---- MODULE Spec2Model ----
(***************************************************************************)
(* Model of pkg/metrics/metrics.go of shipwright-io/build:                 *)
(*   - the instrument registry (InitPrometheus and the record operations)  *)
(*     called from several goroutines of one controller process;           *)
(*   - the metrics Service publisher (CreateMetricsService,                *)
(*     createOrUpdateService) and the owner resolver (getPodOwnerRef,      *)
(*     findFinalOwnerRef) run by several controller replicas against one   *)
(*     cluster object store with optimistic concurrency.                   *)
(***************************************************************************)
EXTENDS Integers, Sequences, FiniteSets, TLC

\* ------------------------------------------------------------------ bounds

\* Goroutines of one controller process that may call into the registry.
NThreads == 2
\* InitPrometheus calls one goroutine may make.
MaxInitCalls == 2
\* Record and observe calls made in total by the process.
MaxRecords == 2

\* Controller replicas that publish the metrics Service.
NReplicas == 2
\* Owner objects (ReplicaSet, Deployment, ...) in the namespace.
MaxOwners == 3
\* Owner fetches one resolution may make before the model stops following it
\* (reached only on a cyclic ownership graph).
MaxFetch == 5

Threads == 1..NThreads
Replicas == 1..NReplicas
Owners == 1..MaxOwners

\* The nil pointer.
Nil == [nil |-> TRUE]

\* --------------------------------------------------------------- constants

BuildStrategyLabel == "buildstrategy"
NamespaceLabel == "namespace"
BuildLabel == "build"
BuildRunLabel == "buildrun"

AllLabels == {BuildStrategyLabel, NamespaceLabel, BuildLabel, BuildRunLabel}

\* The seven package-level instrument variables, in declaration order.
InstrumentVars ==
  << "buildCount", "buildRunCount", "buildRunEstablishDuration",
     "buildRunCompletionDuration", "buildRunRampUpDuration",
     "taskRunRampUpDuration", "taskRunPodRampUpDuration" >>

Instruments == {InstrumentVars[i] : i \in DOMAIN InstrumentVars}

\* The metric name each instrument is constructed with.
MetricName(v) ==
  CASE v = "buildCount" -> "build_builds_registered_total"
    [] v = "buildRunCount" -> "build_buildruns_completed_total"
    [] v = "buildRunEstablishDuration" -> "build_buildrun_establish_duration_seconds"
    [] v = "buildRunCompletionDuration" -> "build_buildrun_completion_duration_seconds"
    [] v = "buildRunRampUpDuration" -> "build_buildrun_rampup_duration_seconds"
    [] v = "taskRunRampUpDuration" -> "build_buildrun_taskrun_rampup_duration_seconds"
    [] v = "taskRunPodRampUpDuration" -> "build_buildrun_taskrun_pod_rampup_duration_seconds"

MetricNames == {MetricName(v) : v \in Instruments}

VARIABLES
  \* ---- registry: package-level state of one process
  initialized,     \* the initialized flag
  labelEnabled,    \* label name -> BOOLEAN: the four ...LabelEnabled flags
  instr,           \* instrument variable -> Nil or [name, labels, by]
  registry,        \* metric name -> Nil or the collector registered under it
  regAttempts,     \* metric name -> number of Register calls made for it
  panicked,        \* the process died of a panic
  \* ---- registry: per goroutine
  tpc,             \* position of the goroutine
  tcfg,            \* config.Prometheus.EnabledLabels of the running call
  tBuildLabels,    \* local buildLabels
  tBuildRunLabels, \* local buildRunLabels
  tcalls,          \* InitPrometheus calls made
  treturned,       \* InitPrometheus calls returned
  series,          \* instrument variable -> (label map -> count or histogram)
  nrecords,        \* record calls made
  lastCall,        \* the latest record call: operation and arguments, or Nil
  \* ---- cluster object store
  ownerRefs,       \* object name -> its metadata.ownerReferences
  store,           \* the metrics Service object held by the store, or Nil
  faulty,          \* whether store calls may fail for reasons of their own
  \* ---- publisher: per replica
  rpc,             \* position of the replica's CreateMetricsService call
  servicePorts,    \* the servicePorts argument
  podNameEnv,      \* the POD_NAME environment variable ("" when unset)
  svc,             \* the Service descriptor s built by the call
  ownerRef,        \* ownerRef of the running findFinalOwnerRef level
  finalOwner,      \* what getPodOwnerRef returned
  existing,        \* existingService read by createOrUpdateService
  result,          \* "none" while running, then "ok" or the error returned
  storeAtCall,     \* what the store held when the call began
  nPodGets,        \* Get calls for the Pod
  nOwnerGets,      \* Get calls for owner objects
  nCreates,        \* Create calls
  nSvcGets,        \* Get calls for the Service
  nUpdates         \* Update calls

regVars == << initialized, labelEnabled, instr, registry, regAttempts, panicked,
              tpc, tcfg, tBuildLabels, tBuildRunLabels, tcalls,
              treturned, series, nrecords, lastCall >>

storeVars == << ownerRefs, store, faulty >>

pubVars == << rpc, servicePorts, podNameEnv, svc, ownerRef, finalOwner, existing,
              result, storeAtCall, nPodGets, nOwnerGets, nCreates, nSvcGets, nUpdates >>

vars == << regVars, storeVars, pubVars >>

\* ---------------------------------------------------------------- helpers

SeqToSet(s) == {s[i] : i \in DOMAIN s}

\* func contains(slice []string, element string) bool
contains(slice, element) == \E i \in DOMAIN slice : slice[i] = element

\* The EnabledLabels slices a configuration may carry: every subset of the four
\* label names, written in the reverse of the order InitPrometheus tests them.
LabelsIf(E, l) == IF l \in E THEN << l >> ELSE << >>
ConfigOf(E) ==
  LabelsIf(E, BuildRunLabel) \o LabelsIf(E, BuildLabel)
    \o LabelsIf(E, NamespaceLabel) \o LabelsIf(E, BuildStrategyLabel)
Configs == {ConfigOf(E) : E \in SUBSET AllLabels}

\* Values the record operations are called with.
Strategies == {"buildah"}
Namespaces == {"team-a", "team-b"}
Builds == {"build-1"}
BuildRuns == {"br-1"}

\* --------------------------------------------------------- InitPrometheus

\* InitPrometheus without the test of the initialized flag.
InitPrometheus_Check_NoGuard(t, config) ==
  /\ ~panicked
  /\ tpc[t] = "idle"
  /\ tcalls[t] < MaxInitCalls
  /\ tcalls' = [tcalls EXCEPT ![t] = @ + 1]
  /\ tpc' = [tpc EXCEPT ![t] = "setInitialized"]
  /\ tcfg' = [tcfg EXCEPT ![t] = config]
  /\ UNCHANGED << initialized, labelEnabled, instr, registry, regAttempts,
                  panicked, tBuildLabels, tBuildRunLabels, treturned, series,
                  nrecords, lastCall >>
  /\ UNCHANGED << storeVars, pubVars >>

\* Lines 66-69: the unsynchronised read of the initialized flag.  A call that
\* reads TRUE returns at once.
InitPrometheus_Check(t, config) ==
  /\ ~panicked
  /\ tpc[t] = "idle"
  /\ tcalls[t] < MaxInitCalls
  /\ tcalls' = [tcalls EXCEPT ![t] = @ + 1]
  /\ IF initialized
       THEN /\ treturned' = [treturned EXCEPT ![t] = @ + 1]
            /\ UNCHANGED << tpc, tcfg >>
       ELSE /\ tpc' = [tpc EXCEPT ![t] = "setInitialized"]
            /\ tcfg' = [tcfg EXCEPT ![t] = config]
            /\ UNCHANGED treturned
  /\ UNCHANGED << initialized, labelEnabled, instr, registry, regAttempts,
                  panicked, tBuildLabels, tBuildRunLabels, series, nrecords, lastCall >>
  /\ UNCHANGED << storeVars, pubVars >>

\* Line 71: initialized = true.
InitPrometheus_SetInitialized(t) ==
  /\ ~panicked
  /\ tpc[t] = "setInitialized"
  /\ initialized' = TRUE
  /\ tpc' = [tpc EXCEPT ![t] = "labels"]
  /\ UNCHANGED << labelEnabled, instr, registry, regAttempts, panicked, tcfg,
                  tBuildLabels, tBuildRunLabels, tcalls, treturned, series,
                  nrecords, lastCall >>
  /\ UNCHANGED << storeVars, pubVars >>

\* Lines 73-93: the label slices of the call.  A label is appended when the
\* configuration contains it, in the order the code tests the four labels.
AppendIf(cond, l) == IF cond THEN << l >> ELSE << >>

BuildLabelsOf(config) ==
  AppendIf(contains(config, BuildStrategyLabel), BuildStrategyLabel)
    \o AppendIf(contains(config, NamespaceLabel), NamespaceLabel)
    \o AppendIf(contains(config, BuildLabel), BuildLabel)

BuildRunLabelsOf(config) ==
  AppendIf(contains(config, BuildStrategyLabel), BuildStrategyLabel)
    \o AppendIf(contains(config, NamespaceLabel), NamespaceLabel)
    \o AppendIf(contains(config, BuildLabel), BuildLabel)
    \o AppendIf(contains(config, BuildRunLabel), BuildRunLabel)

\* Lines 78, 83, 88, 92: a flag is only ever set to true, never reset.
FlagsAfter(flags, config) ==
  [l \in AllLabels |-> flags[l] \/ contains(config, l)]

InitPrometheus_Labels(t) ==
  /\ ~panicked
  /\ tpc[t] = "labels"
  /\ tBuildLabels' = [tBuildLabels EXCEPT ![t] = BuildLabelsOf(tcfg[t])]
  /\ tBuildRunLabels' = [tBuildRunLabels EXCEPT ![t] = BuildRunLabelsOf(tcfg[t])]
  /\ labelEnabled' = FlagsAfter(labelEnabled, tcfg[t])
  /\ tpc' = [tpc EXCEPT ![t] = "construct"]
  /\ UNCHANGED << initialized, instr, registry, regAttempts, panicked, tcfg,
                  tcalls, treturned, series, nrecords, lastCall >>
  /\ UNCHANGED << storeVars, pubVars >>

\* NewCounterVec for buildCount handed buildRunLabels like the others.
NewVec_AllBuildRun(v, t, buildLabels, buildRunLabels, config) ==
  [ name |-> MetricName(v), labels |-> buildRunLabels, by |-> t, cfg |-> config ]

\* Lines 95-147: the seven constructors.  buildCount takes buildLabels, the
\* other six take buildRunLabels.  The collector remembers the goroutine and
\* the configuration of the call that built it.  The seven assignments are
\* taken as one step: no operation reads one instrument variable to decide
\* about another.
NewVec(v, t, buildLabels, buildRunLabels, config) ==
  [ name |-> MetricName(v),
    labels |-> IF v = "buildCount" THEN buildLabels ELSE buildRunLabels,
    by |-> t,
    cfg |-> config ]

InitPrometheus_Construct(t) ==
  /\ ~panicked
  /\ tpc[t] = "construct"
  /\ instr' = [v \in Instruments |->
                 NewVec(v, t, tBuildLabels[t], tBuildRunLabels[t], tcfg[t])]
  /\ series' = [v \in Instruments |-> << >>]
  /\ tpc' = [tpc EXCEPT ![t] = "register"]
  /\ UNCHANGED << initialized, labelEnabled, registry, regAttempts, panicked,
                  tcfg, tBuildLabels, tBuildRunLabels, tcalls, treturned,
                  nrecords, lastCall >>
  /\ UNCHANGED << storeVars, pubVars >>

\* Lines 150-158: metrics.Registry.MustRegister registers the collectors held by
\* the seven package variables, in order, and panics at the first one whose
\* metric name is already registered.
FirstTaken(reg) ==
  IF \E i \in DOMAIN InstrumentVars : reg[MetricName(InstrumentVars[i])] # Nil
    THEN CHOOSE i \in DOMAIN InstrumentVars :
           /\ reg[MetricName(InstrumentVars[i])] # Nil
           /\ \A j \in 1..(i - 1) : reg[MetricName(InstrumentVars[j])] = Nil
    ELSE Len(InstrumentVars) + 1

InitPrometheus_Register(t) ==
  /\ ~panicked
  /\ tpc[t] = "register"
  /\ LET k == FirstTaken(registry)
         tried == {MetricName(InstrumentVars[i]) :
                     i \in {j \in DOMAIN InstrumentVars : j <= k}}
     IN /\ regAttempts' = [n \in MetricNames |->
                             IF n \in tried THEN regAttempts[n] + 1
                             ELSE regAttempts[n]]
        /\ IF k <= Len(InstrumentVars)
             THEN /\ panicked' = TRUE
                  /\ UNCHANGED << registry, tpc, treturned >>
             ELSE /\ registry' = [n \in MetricNames |->
                                    LET v == CHOOSE w \in Instruments : MetricName(w) = n
                                    IN instr[v]]
                  /\ tpc' = [tpc EXCEPT ![t] = "idle"]
                  /\ treturned' = [treturned EXCEPT ![t] = @ + 1]
                  /\ UNCHANGED panicked
  /\ UNCHANGED << initialized, labelEnabled, instr, tcfg, tBuildLabels,
                  tBuildRunLabels, tcalls, series, nrecords, lastCall >>
  /\ UNCHANGED << storeVars, pubVars >>

\* ------------------------------------------------------ record operations

\* Lines 176-190.
createBuildLabels(buildStrategy, namespace, build) ==
  LET keys == {l \in {BuildStrategyLabel, NamespaceLabel, BuildLabel} : labelEnabled[l]}
  IN [l \in keys |->
        CASE l = BuildStrategyLabel -> buildStrategy
          [] l = NamespaceLabel -> namespace
          [] l = BuildLabel -> build]

\* createBuildRunLabels that fills in all four labels, enabled or not.
createBuildRunLabels_AllKeys(buildStrategy, namespace, build, buildRun) ==
  [l \in AllLabels |->
     CASE l = BuildStrategyLabel -> buildStrategy
       [] l = NamespaceLabel -> namespace
       [] l = BuildLabel -> build
       [] l = BuildRunLabel -> buildRun]

\* Lines 192-209.
createBuildRunLabels(buildStrategy, namespace, build, buildRun) ==
  LET keys == {l \in AllLabels : labelEnabled[l]}
  IN [l \in keys |->
        CASE l = BuildStrategyLabel -> buildStrategy
          [] l = NamespaceLabel -> namespace
          [] l = BuildLabel -> build
          [] l = BuildRunLabel -> buildRun]

\* CounterVec.With(labels).Inc(): With panics unless the label map has exactly
\* the label names the vector was constructed with.
WithInc(v, labels) ==
  IF DOMAIN labels # SeqToSet(instr[v].labels)
    THEN /\ panicked' = TRUE
         /\ UNCHANGED series
    ELSE /\ series' = [series EXCEPT ![v] =
                         IF labels \in DOMAIN @
                           THEN [@ EXCEPT ![labels] = @ + 1]
                           ELSE [m \in DOMAIN @ \cup {labels} |->
                                   IF m = labels THEN 1 ELSE @[m]]]
         /\ UNCHANGED panicked

\* The arguments of a record call, as the ghost lastCall keeps them.
CallOf(op, buildStrategy, namespace, build, buildRun, duration) ==
  [ op |-> op, buildStrategy |-> buildStrategy, namespace |-> namespace,
    build |-> build, buildRun |-> buildRun, duration |-> duration ]

\* BuildCountInc without the nil test of line 213: a nil *CounterVec is
\* dereferenced.
BuildCountInc_NoNilCheck(t, buildStrategy, namespace, build) ==
  /\ ~panicked
  /\ tpc[t] = "idle"
  /\ nrecords < MaxRecords
  /\ nrecords' = nrecords + 1
  /\ lastCall' = CallOf("BuildCountInc", buildStrategy, namespace, build, "", 0)
  /\ IF instr["buildCount"] # Nil
       THEN WithInc("buildCount", createBuildLabels(buildStrategy, namespace, build))
       ELSE panicked' = TRUE /\ UNCHANGED series
  /\ UNCHANGED << initialized, labelEnabled, instr, registry, regAttempts, tpc,
                  tcfg, tBuildLabels, tBuildRunLabels, tcalls, treturned >>
  /\ UNCHANGED << storeVars, pubVars >>

\* Lines 212-216.
BuildCountInc(t, buildStrategy, namespace, build) ==
  /\ ~panicked
  /\ tpc[t] = "idle"
  /\ nrecords < MaxRecords
  /\ nrecords' = nrecords + 1
  /\ lastCall' = CallOf("BuildCountInc", buildStrategy, namespace, build, "", 0)
  /\ IF instr["buildCount"] # Nil
       THEN WithInc("buildCount", createBuildLabels(buildStrategy, namespace, build))
       ELSE UNCHANGED << series, panicked >>
  /\ UNCHANGED << initialized, labelEnabled, instr, registry, regAttempts, tpc,
                  tcfg, tBuildLabels, tBuildRunLabels, tcalls, treturned >>
  /\ UNCHANGED << storeVars, pubVars >>

\* Lines 219-223.
BuildRunCountInc(t, buildStrategy, namespace, build, buildRun) ==
  /\ ~panicked
  /\ tpc[t] = "idle"
  /\ nrecords < MaxRecords
  /\ nrecords' = nrecords + 1
  /\ lastCall' = CallOf("BuildRunCountInc", buildStrategy, namespace, build,
                        buildRun, 0)
  /\ IF instr["buildRunCount"] # Nil
       THEN WithInc("buildRunCount",
                    createBuildRunLabels(buildStrategy, namespace, build, buildRun))
       ELSE UNCHANGED << series, panicked >>
  /\ UNCHANGED << initialized, labelEnabled, instr, registry, regAttempts, tpc,
                  tcfg, tBuildLabels, tBuildRunLabels, tcalls, treturned >>
  /\ UNCHANGED << storeVars, pubVars >>

\* ----------------------------------------------------- observe operations

\* time.Duration values the observe operations are called with, in
\* milliseconds: minus two seconds and three seconds.
Durations == {-2000, 3000}

\* Duration.Seconds(), exact on durations of whole seconds.
Seconds(duration) == duration \div 1000

\* config.Prometheus.*Buckets: the upper bounds of the buckets, in seconds.
HistogramBuckets == << 1, 5 >>

\* A histogram no observation has reached yet.
NewHistogram ==
  [ count |-> 0, sum |-> 0, buckets |-> [i \in DOMAIN HistogramBuckets |-> 0] ]

\* sort.SearchFloat64s(upperBounds, x): the first bucket whose upper bound is
\* not below x, or one past the last.
SearchBucket(upperBounds, x) ==
  IF \E i \in DOMAIN upperBounds : upperBounds[i] >= x
    THEN CHOOSE i \in DOMAIN upperBounds :
           /\ upperBounds[i] >= x
           /\ \A j \in 1..(i - 1) : upperBounds[j] < x
    ELSE Len(upperBounds) + 1

\* histogram.Observe(x): the bucket x falls into, the count and the sum all
\* take the observation, whatever the sign of x.
HistogramObserve(h, x) ==
  LET i == SearchBucket(HistogramBuckets, x)
  IN [ count |-> h.count + 1,
       sum |-> h.sum + x,
       buckets |-> [j \in DOMAIN h.buckets |->
                      IF j = i THEN h.buckets[j] + 1 ELSE h.buckets[j]] ]

\* HistogramVec.With(labels).Observe(x): With panics unless the label map has
\* exactly the label names the vector was constructed with.
WithObserve(v, labels, x) ==
  IF DOMAIN labels # SeqToSet(instr[v].labels)
    THEN /\ panicked' = TRUE
         /\ UNCHANGED series
    ELSE /\ series' = [series EXCEPT ![v] =
                         IF labels \in DOMAIN @
                           THEN [@ EXCEPT ![labels] = HistogramObserve(@, x)]
                           ELSE [m \in DOMAIN @ \cup {labels} |->
                                   IF m = labels
                                     THEN HistogramObserve(NewHistogram, x)
                                     ELSE @[m]]]
         /\ UNCHANGED panicked

\* The body the five observe functions share: the nil test of the histogram
\* variable v, then With(createBuildRunLabels(...)).Observe(duration.Seconds()).
\* No line of it looks at the sign of duration.
ObserveOn(v, op, t, buildStrategy, namespace, build, buildRun, duration) ==
  /\ ~panicked
  /\ tpc[t] = "idle"
  /\ nrecords < MaxRecords
  /\ nrecords' = nrecords + 1
  /\ lastCall' = CallOf(op, buildStrategy, namespace, build, buildRun, duration)
  /\ IF instr[v] # Nil
       THEN WithObserve(v, createBuildRunLabels(buildStrategy, namespace, build,
                                                buildRun),
                        Seconds(duration))
       ELSE UNCHANGED << series, panicked >>
  /\ UNCHANGED << initialized, labelEnabled, instr, registry, regAttempts, tpc,
                  tcfg, tBuildLabels, tBuildRunLabels, tcalls, treturned >>
  /\ UNCHANGED << storeVars, pubVars >>

\* Lines 226-230.
BuildRunEstablishObserve(t, buildStrategy, namespace, build, buildRun, duration) ==
  ObserveOn("buildRunEstablishDuration", "BuildRunEstablishObserve", t,
            buildStrategy, namespace, build, buildRun, duration)

\* Lines 233-237.
BuildRunCompletionObserve(t, buildStrategy, namespace, build, buildRun, duration) ==
  ObserveOn("buildRunCompletionDuration", "BuildRunCompletionObserve", t,
            buildStrategy, namespace, build, buildRun, duration)

\* Lines 240-244.
BuildRunRampUpDurationObserve(t, buildStrategy, namespace, build, buildRun, duration) ==
  ObserveOn("buildRunRampUpDuration", "BuildRunRampUpDurationObserve", t,
            buildStrategy, namespace, build, buildRun, duration)

\* Lines 247-251.
TaskRunRampUpDurationObserve(t, buildStrategy, namespace, build, buildRun, duration) ==
  ObserveOn("taskRunRampUpDuration", "TaskRunRampUpDurationObserve", t,
            buildStrategy, namespace, build, buildRun, duration)

\* Lines 254-258.
TaskRunPodRampUpDurationObserve(t, buildStrategy, namespace, build, buildRun, duration) ==
  ObserveOn("taskRunPodRampUpDuration", "TaskRunPodRampUpDurationObserve", t,
            buildStrategy, namespace, build, buildRun, duration)

\* ------------------------------------------------ registry specification

\* The package-level state as the Go runtime initialises it (lines 43-60).
RegistryIdle ==
  /\ initialized = FALSE
  /\ labelEnabled = [l \in AllLabels |-> FALSE]
  /\ instr = [v \in Instruments |-> Nil]
  /\ registry = [n \in MetricNames |-> Nil]
  /\ regAttempts = [n \in MetricNames |-> 0]
  /\ panicked = FALSE
  /\ tpc = [t \in Threads |-> "idle"]
  /\ tcfg = [t \in Threads |-> << >>]
  /\ tBuildLabels = [t \in Threads |-> << >>]
  /\ tBuildRunLabels = [t \in Threads |-> << >>]
  /\ tcalls = [t \in Threads |-> 0]
  /\ treturned = [t \in Threads |-> 0]
  /\ series = [v \in Instruments |-> << >>]
  /\ nrecords = 0
  /\ lastCall = Nil

\* No replica has called CreateMetricsService yet.
PublisherIdle ==
  /\ rpc = [r \in Replicas |-> "idle"]
  /\ svc = [r \in Replicas |-> Nil]
  /\ ownerRef = [r \in Replicas |-> Nil]
  /\ finalOwner = [r \in Replicas |-> Nil]
  /\ existing = [r \in Replicas |-> Nil]
  /\ result = [r \in Replicas |-> "none"]
  /\ storeAtCall = [r \in Replicas |-> Nil]
  /\ nPodGets = [r \in Replicas |-> 0]
  /\ nOwnerGets = [r \in Replicas |-> 0]
  /\ nCreates = [r \in Replicas |-> 0]
  /\ nSvcGets = [r \in Replicas |-> 0]
  /\ nUpdates = [r \in Replicas |-> 0]

\* One process: no call made yet; the publisher plays no part.
InitRegistry ==
  /\ RegistryIdle
  /\ PublisherIdle
  /\ ownerRefs = << >>
  /\ store = Nil
  /\ faulty = FALSE
  /\ servicePorts = [r \in Replicas |-> << >>]
  /\ podNameEnv = [r \in Replicas |-> ""]

\* The namespace the record calls made around InitPrometheus name: what these
\* calls show is whether they are recorded, not where.
InitNamespaces == {"team-a"}

\* One step of goroutine t.
ThreadStep(t) ==
  \/ \E config \in Configs : InitPrometheus_Check(t, config)
  \/ InitPrometheus_SetInitialized(t)
  \/ InitPrometheus_Labels(t)
  \/ InitPrometheus_Construct(t)
  \/ InitPrometheus_Register(t)
  \/ \E bs \in Strategies, ns \in InitNamespaces, b \in Builds :
       BuildCountInc(t, bs, ns, b)
  \/ \E bs \in Strategies, ns \in InitNamespaces, b \in Builds, br \in BuildRuns :
       BuildRunCountInc(t, bs, ns, b, br)

\* Goroutines interleave freely: nothing in the package synchronises them.
NextRegistry == \E t \in Threads : ThreadStep(t)

SpecRegistry == InitRegistry /\ [][NextRegistry]_vars

\* The calls are made one after the other (from any goroutine): a goroutine
\* takes a step only while no other goroutine is inside a call.
NoOtherCall(t) == \A u \in Threads \ {t} : tpc[u] = "idle"

NextRegistrySeq ==
  \E t \in Threads :
    \/ NoOtherCall(t) /\ \E config \in Configs : InitPrometheus_Check(t, config)
    \/ NoOtherCall(t) /\ InitPrometheus_SetInitialized(t)
    \/ NoOtherCall(t) /\ InitPrometheus_Labels(t)
    \/ NoOtherCall(t) /\ InitPrometheus_Construct(t)
    \/ NoOtherCall(t) /\ InitPrometheus_Register(t)
    \/ NoOtherCall(t) /\ \E bs \in Strategies, ns \in InitNamespaces, b \in Builds :
                            BuildCountInc(t, bs, ns, b)
    \/ NoOtherCall(t) /\ \E bs \in Strategies, ns \in InitNamespaces, b \in Builds,
                            br \in BuildRuns :
                            BuildRunCountInc(t, bs, ns, b, br)

SpecRegistrySeq == InitRegistry /\ [][NextRegistrySeq]_vars

\* The configurations the recording process starts with: no label, strategy
\* and namespace, all four.
RecordConfigs ==
  { ConfigOf({}), ConfigOf({BuildStrategyLabel, NamespaceLabel}), ConfigOf(AllLabels) }

\* One goroutine makes every call, one after the other: InitPrometheus and
\* the seven record and observe operations, in any order.
RecordStep(t) ==
  \/ \E config \in RecordConfigs : InitPrometheus_Check(t, config)
  \/ InitPrometheus_SetInitialized(t)
  \/ InitPrometheus_Labels(t)
  \/ InitPrometheus_Construct(t)
  \/ InitPrometheus_Register(t)
  \/ \E bs \in Strategies, ns \in Namespaces, b \in Builds :
       BuildCountInc(t, bs, ns, b)
  \/ \E bs \in Strategies, ns \in Namespaces, b \in Builds, br \in BuildRuns :
       BuildRunCountInc(t, bs, ns, b, br)
  \/ \E bs \in Strategies, ns \in Namespaces, b \in Builds, br \in BuildRuns,
        d \in Durations :
       BuildRunEstablishObserve(t, bs, ns, b, br, d)
  \/ \E bs \in Strategies, ns \in Namespaces, b \in Builds, br \in BuildRuns,
        d \in Durations :
       BuildRunCompletionObserve(t, bs, ns, b, br, d)
  \/ \E bs \in Strategies, ns \in Namespaces, b \in Builds, br \in BuildRuns,
        d \in Durations :
       BuildRunRampUpDurationObserve(t, bs, ns, b, br, d)
  \/ \E bs \in Strategies, ns \in Namespaces, b \in Builds, br \in BuildRuns,
        d \in Durations :
       TaskRunRampUpDurationObserve(t, bs, ns, b, br, d)
  \/ \E bs \in Strategies, ns \in Namespaces, b \in Builds, br \in BuildRuns,
        d \in Durations :
       TaskRunPodRampUpDurationObserve(t, bs, ns, b, br, d)

NextRecord == RecordStep(1)

SpecRecord == InitRegistry /\ [][NextRecord]_vars

\* ------------------------------------------------- cluster object graph

BuildControllerName == "shipwright-build-controller"
MetricsServiceName == "shipwright-build-controller-metrics"
\* buildCfg.ManagerOptions.LeaderElectionNamespace
LeaderElectionNamespace == "shipwright-build"
ControllerPortName == "http-metrics"
CRPortName == "cr-metrics"
ServiceTypeClusterIP == "ClusterIP"

\* Names of the objects of the namespace: one Pod per replica and the owners.
PodOf(r) == << "pod", r >>
OwnerOf(i) == << "owner", i >>
Pods == {PodOf(r) : r \in Replicas}
OwnerObjects == {OwnerOf(i) : i \in Owners}

KindOf(i) == IF i = 1 THEN "ReplicaSet" ELSE IF i = 2 THEN "Deployment" ELSE "Custom"

\* An owner reference to owner object i, marked as controller or not.
RefTo(i, ctrl) ==
  [ apiVersion |-> "apps/v1", kind |-> KindOf(i), name |-> OwnerOf(i),
    controller |-> ctrl, blockOwnerDeletion |-> ctrl ]

\* GetControllerOf that takes the first owner reference, controller or not.
GetControllerOf_First(refs) == IF refs = << >> THEN Nil ELSE refs[1]

\* metav1.GetControllerOf: the first owner reference marked as controller.
GetControllerOf(refs) ==
  IF \E i \in DOMAIN refs : refs[i].controller
    THEN refs[CHOOSE i \in DOMAIN refs :
                /\ refs[i].controller
                /\ \A j \in 1..(i - 1) : ~refs[j].controller]
    ELSE Nil

\* NewControllerRef on the Pod as client.Get leaves it, APIVersion and Kind
\* cleared (lines 350-351 left out).
NewControllerRef_NoTypeMeta(podName) ==
  [ apiVersion |-> "", kind |-> "", name |-> podName,
    controller |-> TRUE, blockOwnerDeletion |-> TRUE ]

\* metav1.NewControllerRef(pod, pod.GroupVersionKind()) after lines 350-351
\* have set APIVersion "v1" and Kind "Pod".
NewControllerRef(podName) ==
  [ apiVersion |-> "v1", kind |-> "Pod", name |-> podName,
    controller |-> TRUE, blockOwnerDeletion |-> TRUE ]

\* The ownerReferences an object may carry: none, one controller reference,
\* one reference that is not a controller, or both (the non-controller first).
\* An object has at most one controller reference.
RefSeqs ==
  {<< >>}
    \cup {<< RefTo(i, TRUE) >> : i \in Owners}
    \cup {<< RefTo(1, FALSE) >>}
    \cup {<< RefTo(1, FALSE), RefTo(i, TRUE) >> : i \in Owners}

\* The linear chain of n owners: owner i is controlled by owner i+1.
ChainRefs(n) ==
  [o \in OwnerObjects |->
     LET i == o[2] IN IF i < n THEN << RefTo(i + 1, TRUE) >> ELSE << >>]

\* ------------------------------------------------------- the Service store

\* The Service object lines 273-283 build.
NewService(ports) ==
  [ name |-> MetricsServiceName,
    namespace |-> LeaderElectionNamespace,
    labels |-> [name |-> BuildControllerName],
    ports |-> ports,
    selector |-> [name |-> BuildControllerName],
    ownerReferences |-> << >>,
    type |-> "",
    clusterIP |-> "",
    resourceVersion |-> 0 ]

\* A Service some earlier writer left in the store.
OldService(type) ==
  [ name |-> MetricsServiceName,
    namespace |-> LeaderElectionNamespace,
    labels |-> [name |-> "old"],
    ports |-> << "old-port" >>,
    selector |-> [name |-> "old"],
    ownerReferences |-> << >>,
    type |-> type,
    clusterIP |-> IF type = "ExternalName" THEN "" ELSE "10.96.0.1",
    resourceVersion |-> 1 ]

ServiceTypes == {ServiceTypeClusterIP, "NodePort", "ExternalName"}

\* The store defaults an empty service type to ClusterIP.
DefaultType(type) == IF type = "" THEN ServiceTypeClusterIP ELSE type

\* What the store holds after a successful Create of s: the type defaulted,
\* a virtual address assigned, the first version token given.
Created(s) ==
  [s EXCEPT !.type = DefaultType(s.type),
            !.clusterIP = "10.96.0.2",
            !.resourceVersion = 1]

\* What the store holds after a successful Update with s: the object as sent,
\* the type defaulted, under the next version token.
Updated(s) ==
  [s EXCEPT !.type = DefaultType(s.type),
            !.resourceVersion = s.resourceVersion + 1]

\* Whether a store call may fail for a reason of its own (not found, access
\* denied, transient).
Outcomes == IF faulty THEN {TRUE, FALSE} ELSE {TRUE}

\* --------------------------------------------------- CreateMetricsService

Finish(r, res) ==
  /\ rpc' = [rpc EXCEPT ![r] = "done"]
  /\ result' = [result EXCEPT ![r] = res]

\* Lines 262-283: the port check, the client, the Service descriptor.
CreateMetricsService_Call(r) ==
  /\ rpc[r] = "idle"
  /\ storeAtCall' = [storeAtCall EXCEPT ![r] = store]
  /\ \E clientOk \in Outcomes :
       IF Len(servicePorts[r]) < 1
         THEN Finish(r, "ErrEmptyPorts") /\ UNCHANGED svc
         ELSE IF ~clientOk
           THEN Finish(r, "ErrNewClient") /\ UNCHANGED svc
           ELSE /\ svc' = [svc EXCEPT ![r] = NewService(servicePorts[r])]
                /\ rpc' = [rpc EXCEPT ![r] = "getPod"]
                /\ UNCHANGED result
  /\ UNCHANGED << regVars, storeVars, servicePorts, podNameEnv, ownerRef,
                  finalOwner, existing, nPodGets, nOwnerGets, nCreates,
                  nSvcGets, nUpdates >>

\* getPodOwnerRef without the test of lines 336-338: the Pod is fetched under
\* whatever name the environment gives, the empty one included.
getPodOwnerRef_GetPod_NoEnvCheck(r) ==
  /\ rpc[r] = "getPod"
  /\ nPodGets' = [nPodGets EXCEPT ![r] = @ + 1]
  /\ \E ok \in Outcomes :
       IF ~ok \/ podNameEnv[r] = "" \/ podNameEnv[r] \notin DOMAIN ownerRefs
         THEN /\ Finish(r, "ErrGetPod")
              /\ UNCHANGED << ownerRef, finalOwner >>
         ELSE LET ref == GetControllerOf(ownerRefs[podNameEnv[r]])
              IN IF ref = Nil
                   THEN /\ finalOwner' = [finalOwner EXCEPT ![r] =
                                            NewControllerRef(podNameEnv[r])]
                        /\ rpc' = [rpc EXCEPT ![r] = "resolved"]
                        /\ UNCHANGED << ownerRef, result >>
                   ELSE /\ ownerRef' = [ownerRef EXCEPT ![r] = ref]
                        /\ rpc' = [rpc EXCEPT ![r] = "findFinalOwnerRef"]
                        /\ UNCHANGED << finalOwner, result >>
  /\ UNCHANGED << regVars, storeVars, servicePorts, podNameEnv, storeAtCall, svc, existing,
                  nOwnerGets, nCreates, nSvcGets, nUpdates >>

\* Lines 333-365 up to the first fetch of an owner: the environment, the Pod,
\* its controller reference.  findFinalOwnerRef called with nil returns nil
\* (lines 371-373) and getPodOwnerRef then returns the Pod's own reference.
getPodOwnerRef_GetPod(r) ==
  /\ rpc[r] = "getPod"
  /\ IF podNameEnv[r] = ""
       THEN /\ Finish(r, "ErrEnvNotSet")
            /\ UNCHANGED << ownerRef, finalOwner, nPodGets >>
       ELSE /\ nPodGets' = [nPodGets EXCEPT ![r] = @ + 1]
            /\ \E ok \in Outcomes :
                 IF ~ok \/ podNameEnv[r] \notin DOMAIN ownerRefs
                   THEN /\ Finish(r, "ErrGetPod")
                        /\ UNCHANGED << ownerRef, finalOwner >>
                   ELSE LET ref == GetControllerOf(ownerRefs[podNameEnv[r]])
                        IN IF ref = Nil
                             THEN /\ finalOwner' = [finalOwner EXCEPT ![r] =
                                                      NewControllerRef(podNameEnv[r])]
                                  /\ rpc' = [rpc EXCEPT ![r] = "resolved"]
                                  /\ UNCHANGED << ownerRef, result >>
                             ELSE /\ ownerRef' = [ownerRef EXCEPT ![r] = ref]
                                  /\ rpc' = [rpc EXCEPT ![r] = "findFinalOwnerRef"]
                                  /\ UNCHANGED << finalOwner, result >>
  /\ UNCHANGED << regVars, storeVars, servicePorts, podNameEnv, storeAtCall, svc, existing,
                  nOwnerGets, nCreates, nSvcGets, nUpdates >>

\* findFinalOwnerRef that fetches again when a fetch fails.
findFinalOwnerRef_Retry(r) ==
  /\ rpc[r] = "findFinalOwnerRef"
  /\ nOwnerGets[r] < MaxFetch
  /\ nOwnerGets' = [nOwnerGets EXCEPT ![r] = @ + 1]
  /\ \E ok \in Outcomes :
       IF ~ok \/ ownerRef[r].name \notin DOMAIN ownerRefs
         THEN UNCHANGED << rpc, result, ownerRef, finalOwner >>
         ELSE LET newOwnerRef == GetControllerOf(ownerRefs[ownerRef[r].name])
              IN IF newOwnerRef # Nil
                   THEN /\ ownerRef' = [ownerRef EXCEPT ![r] = newOwnerRef]
                        /\ UNCHANGED << rpc, result, finalOwner >>
                   ELSE /\ finalOwner' = [finalOwner EXCEPT ![r] = ownerRef[r]]
                        /\ rpc' = [rpc EXCEPT ![r] = "resolved"]
                        /\ UNCHANGED << ownerRef, result >>
  /\ UNCHANGED << regVars, storeVars, servicePorts, podNameEnv, storeAtCall, svc, existing,
                  nPodGets, nCreates, nSvcGets, nUpdates >>

\* findFinalOwnerRef that never recurses: the first owner fetched is returned.
findFinalOwnerRef_OneHop(r) ==
  /\ rpc[r] = "findFinalOwnerRef"
  /\ nOwnerGets[r] < MaxFetch
  /\ nOwnerGets' = [nOwnerGets EXCEPT ![r] = @ + 1]
  /\ \E ok \in Outcomes :
       IF ~ok \/ ownerRef[r].name \notin DOMAIN ownerRefs
         THEN /\ Finish(r, "ErrGetOwner")
              /\ UNCHANGED << ownerRef, finalOwner >>
         ELSE /\ finalOwner' = [finalOwner EXCEPT ![r] = ownerRef[r]]
              /\ rpc' = [rpc EXCEPT ![r] = "resolved"]
              /\ UNCHANGED << ownerRef, result >>
  /\ UNCHANGED << regVars, storeVars, servicePorts, podNameEnv, storeAtCall, svc, existing,
                  nPodGets, nCreates, nSvcGets, nUpdates >>

\* Lines 369-387, one level of the recursion: fetch the object ownerRef names;
\* recurse into its controller reference when it has one, else return ownerRef.
findFinalOwnerRef(r) ==
  /\ rpc[r] = "findFinalOwnerRef"
  /\ nOwnerGets[r] < MaxFetch
  /\ nOwnerGets' = [nOwnerGets EXCEPT ![r] = @ + 1]
  /\ \E ok \in Outcomes :
       IF ~ok \/ ownerRef[r].name \notin DOMAIN ownerRefs
         THEN /\ Finish(r, "ErrGetOwner")
              /\ UNCHANGED << ownerRef, finalOwner >>
         ELSE LET newOwnerRef == GetControllerOf(ownerRefs[ownerRef[r].name])
              IN IF newOwnerRef # Nil
                   THEN /\ ownerRef' = [ownerRef EXCEPT ![r] = newOwnerRef]
                        /\ UNCHANGED << rpc, result, finalOwner >>
                   ELSE /\ finalOwner' = [finalOwner EXCEPT ![r] = ownerRef[r]]
                        /\ rpc' = [rpc EXCEPT ![r] = "resolved"]
                        /\ UNCHANGED << ownerRef, result >>
  /\ UNCHANGED << regVars, storeVars, servicePorts, podNameEnv, storeAtCall, svc, existing,
                  nPodGets, nCreates, nSvcGets, nUpdates >>

\* CreateMetricsService without line 289: the descriptor goes on without an
\* owner reference.
CreateMetricsService_SetOwner_Skip(r) ==
  /\ rpc[r] = "resolved"
  /\ rpc' = [rpc EXCEPT ![r] = "create"]
  /\ UNCHANGED << regVars, storeVars, servicePorts, podNameEnv, storeAtCall, svc,
                  ownerRef, finalOwner, existing, result, nPodGets, nOwnerGets,
                  nCreates, nSvcGets, nUpdates >>

\* Lines 285-291: the resolved owner becomes the sole owner reference.
CreateMetricsService_SetOwner(r) ==
  /\ rpc[r] = "resolved"
  /\ svc' = [svc EXCEPT ![r].ownerReferences = << finalOwner[r] >>]
  /\ rpc' = [rpc EXCEPT ![r] = "create"]
  /\ UNCHANGED << regVars, storeVars, servicePorts, podNameEnv, storeAtCall, ownerRef,
                  finalOwner, existing, result, nPodGets, nOwnerGets, nCreates,
                  nSvcGets, nUpdates >>

\* What client.Create answers: an error of the store's own, already-exists
\* when the name is taken, or no error.
CreateErr(ok, held) ==
  IF ~ok THEN "Other" ELSE IF held # Nil THEN "AlreadyExists" ELSE ""

\* Every Create error taken as terminal.
IsAlreadyExists_Never(err) == FALSE

\* Every Create error taken as already-exists.
IsAlreadyExists_Any(err) == err # ""

\* Line 301: apierrors.IsAlreadyExists(err).
IsAlreadyExists(err) == err = "AlreadyExists"

\* Lines 300-303 and 328-330: client.Create.  On success the caller's object
\* becomes the stored one; any error but already-exists is returned.
createOrUpdateService_Create(r) ==
  /\ rpc[r] = "create"
  /\ nCreates' = [nCreates EXCEPT ![r] = @ + 1]
  /\ \E ok \in Outcomes :
       LET err == CreateErr(ok, store)
       IN IF err # ""
            THEN IF ~IsAlreadyExists(err)
                   THEN /\ Finish(r, "ErrCreate")
                        /\ UNCHANGED << store, svc >>
                   ELSE /\ rpc' = [rpc EXCEPT ![r] = "get"]
                        /\ UNCHANGED << store, svc, result >>
            ELSE /\ store' = Created(svc[r])
                 /\ svc' = [svc EXCEPT ![r] = Created(svc[r])]
                 /\ Finish(r, "ok")
  /\ UNCHANGED << regVars, ownerRefs, faulty, servicePorts, podNameEnv, storeAtCall,
                  ownerRef, finalOwner, existing, nPodGets, nOwnerGets,
                  nSvcGets, nUpdates >>

\* The merge without the version token (line 315 left out).
Merge_NoVersion(s, existingService) ==
  [s EXCEPT !.clusterIP = IF existingService.type = ServiceTypeClusterIP
                            THEN existingService.clusterIP ELSE @]

\* The merge without the virtual address (lines 316-318 left out).
Merge_NoClusterIP(s, existingService) ==
  [s EXCEPT !.resourceVersion = existingService.resourceVersion]

\* Lines 315-318: the version token of the existing Service and, when it is a
\* ClusterIP Service, its virtual address are copied onto s.
Merge(s, existingService) ==
  [s EXCEPT !.resourceVersion = existingService.resourceVersion,
            !.clusterIP = IF existingService.type = ServiceTypeClusterIP
                            THEN existingService.clusterIP ELSE @]

\* Lines 306-318: client.Get of the existing Service, then the merge.
createOrUpdateService_Get(r) ==
  /\ rpc[r] = "get"
  /\ nSvcGets' = [nSvcGets EXCEPT ![r] = @ + 1]
  /\ \E ok \in Outcomes :
       IF ~ok \/ store = Nil
         THEN /\ Finish(r, "ErrGetService")
              /\ UNCHANGED << existing, svc >>
         ELSE /\ existing' = [existing EXCEPT ![r] = store]
              /\ svc' = [svc EXCEPT ![r] = Merge(@, store)]
              /\ rpc' = [rpc EXCEPT ![r] = "update"]
              /\ UNCHANGED result
  /\ UNCHANGED << regVars, storeVars, servicePorts, podNameEnv, storeAtCall, ownerRef,
                  finalOwner, nPodGets, nOwnerGets, nCreates, nUpdates >>

\* createOrUpdateService that goes back to the fetch when the store refuses
\* the update as stale.
createOrUpdateService_Update_Retry(r) ==
  /\ rpc[r] = "update"
  /\ nUpdates' = [nUpdates EXCEPT ![r] = @ + 1]
  /\ \E ok \in Outcomes :
       IF ~ok \/ store = Nil
         THEN /\ Finish(r, "ErrUpdate")
              /\ UNCHANGED << store, svc >>
         ELSE IF svc[r].resourceVersion # store.resourceVersion
           THEN /\ rpc' = [rpc EXCEPT ![r] = "get"]
                /\ UNCHANGED << store, svc, result >>
           ELSE /\ store' = Updated(svc[r])
                /\ svc' = [svc EXCEPT ![r] = Updated(svc[r])]
                /\ Finish(r, "ok")
  /\ UNCHANGED << regVars, ownerRefs, faulty, servicePorts, podNameEnv, storeAtCall,
                  ownerRef, finalOwner, existing, nPodGets, nOwnerGets,
                  nCreates, nSvcGets >>

\* Lines 319-325: client.Update.  The store refuses an object whose version
\* token is not the stored one; on success the caller's object becomes the
\* stored one.
createOrUpdateService_Update(r) ==
  /\ rpc[r] = "update"
  /\ nUpdates' = [nUpdates EXCEPT ![r] = @ + 1]
  /\ \E ok \in Outcomes :
       IF ~ok \/ store = Nil
         THEN /\ Finish(r, "ErrUpdate")
              /\ UNCHANGED << store, svc >>
         ELSE IF svc[r].resourceVersion # store.resourceVersion
           THEN /\ Finish(r, "ErrConflict")
                /\ UNCHANGED << store, svc >>
           ELSE /\ store' = Updated(svc[r])
                /\ svc' = [svc EXCEPT ![r] = Updated(svc[r])]
                /\ Finish(r, "ok")
  /\ UNCHANGED << regVars, ownerRefs, faulty, servicePorts, podNameEnv, storeAtCall,
                  ownerRef, finalOwner, existing, nPodGets, nOwnerGets,
                  nCreates, nSvcGets >>

\* ------------------------------------------------ publisher specifications

\* The servicePorts a caller may pass: none, or the two metrics ports.
PortLists == {<< >>, << ControllerPortName, CRPortName >>}

\* What the store may hold before the first publish.
InitialStores == {Nil} \cup {OldService(type) : type \in ServiceTypes}

\* The replicas of one Deployment: every Pod carries the same owner
\* references and the owners form a chain of n objects.
ReplicaGraphs ==
  { [o \in Pods \cup OwnerObjects |->
       IF o \in Pods THEN podRefs ELSE ChainRefs(n)[o]] :
      podRefs \in {<< >>, << RefTo(1, TRUE) >>, << RefTo(1, FALSE), RefTo(1, TRUE) >>},
      n \in Owners }

\* One step of replica r's CreateMetricsService call.
ReplicaStep(r) ==
  \/ CreateMetricsService_Call(r)
  \/ getPodOwnerRef_GetPod(r)
  \/ findFinalOwnerRef(r)
  \/ CreateMetricsService_SetOwner(r)
  \/ createOrUpdateService_Create(r)
  \/ createOrUpdateService_Get(r)
  \/ createOrUpdateService_Update(r)

\* Replicas racing at start-up: same ports, POD_NAME set, a store that fails
\* only by already-exists and by version conflict.
Init ==
  /\ RegistryIdle
  /\ PublisherIdle
  /\ ownerRefs \in ReplicaGraphs
  /\ store \in InitialStores
  /\ faulty = FALSE
  /\ \E ports \in PortLists \ {<< >>} : servicePorts = [r \in Replicas |-> ports]
  /\ podNameEnv = [r \in Replicas |-> PodOf(r)]

Next == \E r \in Replicas : ReplicaStep(r)

Spec == Init /\ [][Next]_vars

\* Publish calls made one after the other (a replica starts when no other is
\* inside its call), with any ports, POD_NAME set or not, and a store whose
\* calls may fail.
InitPublish ==
  /\ RegistryIdle
  /\ PublisherIdle
  /\ ownerRefs \in ReplicaGraphs
  /\ store \in InitialStores
  /\ faulty \in BOOLEAN
  /\ servicePorts \in [Replicas -> PortLists]
  /\ podNameEnv \in [Replicas -> {""}] \cup {[r \in Replicas |-> PodOf(r)]}

NoOtherPublish(r) == \A q \in Replicas \ {r} : rpc[q] \in {"idle", "done"}

NextPublish ==
  \E r \in Replicas :
    \/ NoOtherPublish(r) /\ CreateMetricsService_Call(r)
    \/ NoOtherPublish(r) /\ getPodOwnerRef_GetPod(r)
    \/ NoOtherPublish(r) /\ findFinalOwnerRef(r)
    \/ NoOtherPublish(r) /\ CreateMetricsService_SetOwner(r)
    \/ NoOtherPublish(r) /\ createOrUpdateService_Create(r)
    \/ NoOtherPublish(r) /\ createOrUpdateService_Get(r)
    \/ NoOtherPublish(r) /\ createOrUpdateService_Update(r)

SpecPublish == InitPublish /\ [][NextPublish]_vars

\* Replicas racing at start-up against a store whose calls may fail: the Pods
\* of one ReplicaSet, same ports, POD_NAME set.
InitFaults ==
  /\ RegistryIdle
  /\ PublisherIdle
  /\ ownerRefs = [o \in Pods \cup OwnerObjects |->
                    IF o \in Pods THEN << RefTo(1, TRUE) >> ELSE << >>]
  /\ store \in InitialStores
  /\ faulty = TRUE
  /\ servicePorts = [r \in Replicas |-> << ControllerPortName, CRPortName >>]
  /\ podNameEnv = [r \in Replicas |-> PodOf(r)]

SpecFaults == InitFaults /\ [][Next]_vars

\* Owner resolution alone, by replica 1, over every ownership graph of the
\* namespace, cyclic ones included.
OwnerGraphs == [{PodOf(1)} \cup OwnerObjects -> RefSeqs]

InitResolver ==
  /\ RegistryIdle
  /\ PublisherIdle
  /\ ownerRefs \in OwnerGraphs
  /\ store = Nil
  /\ faulty \in BOOLEAN
  /\ servicePorts = [r \in Replicas |-> << ControllerPortName >>]
  /\ podNameEnv = [r \in Replicas |-> PodOf(r)]

NextResolver ==
  \/ CreateMetricsService_Call(1)
  \/ getPodOwnerRef_GetPod(1)
  \/ findFinalOwnerRef(1)

SpecResolver == InitResolver /\ [][NextResolver]_vars

\* Owner resolution alone, by replica 1, with every fetch succeeding, over
\* every graph of controller references, cyclic ones included.  The goroutine
\* that runs the call keeps running: each fetch is a synchronous call that
\* returns.
ControllerRefSeqs == {<< >>} \cup {<< RefTo(i, TRUE) >> : i \in Owners}

InitTermination ==
  /\ RegistryIdle
  /\ PublisherIdle
  /\ ownerRefs \in [{PodOf(1)} \cup OwnerObjects -> ControllerRefSeqs]
  /\ store = Nil
  /\ faulty = FALSE
  /\ servicePorts = [r \in Replicas |-> << ControllerPortName >>]
  /\ podNameEnv = [r \in Replicas |-> PodOf(r)]

SpecTermination ==
  InitTermination /\ [][NextResolver]_vars /\ WF_vars(NextResolver)

\* ------------------------------------ what the claims say of a graph

\* The owner references of object o that are marked as controller.
ControllerRefs(o) ==
  {ownerRefs[o][i] : i \in {j \in DOMAIN ownerRefs[o] : ownerRefs[o][j].controller}}

HasController(o) == ControllerRefs(o) # {}

\* The ownership chain that starts at object o: the controller reference of o,
\* then that of the object it names, and so on, for at most fuel hops.
RECURSIVE OwnerChain(_, _)
OwnerChain(o, fuel) ==
  IF fuel = 0 \/ ~HasController(o)
    THEN << >>
    ELSE LET ref == CHOOSE x \in ControllerRefs(o) : TRUE
         IN << ref >> \o OwnerChain(ref.name, fuel - 1)

\* The chain of replica r's Pod.  A chain over MaxOwners owner objects that is
\* longer than MaxOwners visits an object twice: it is cyclic.
ChainOf(r) == OwnerChain(PodOf(r), MaxOwners + 1)
Acyclic(r) == Len(ChainOf(r)) <= MaxOwners

\* The call of replica r got past the argument and environment checks.
ValidCall(r) == Len(servicePorts[r]) >= 1 /\ podNameEnv[r] # ""

\* No replica other than r has published since r's call began.
OnlyCaller(r) == \A q \in Replicas \ {r} : rpc[q] = "idle"

AllDone == \A r \in Replicas : rpc[r] = "done"

\* Two Service objects that differ at most in version token and owner.
SameService(a, b) ==
  /\ a.name = b.name /\ a.namespace = b.namespace
  /\ a.labels = b.labels /\ a.selector = b.selector
  /\ a.ports = b.ports /\ a.type = b.type /\ a.clusterIP = b.clusterIP

\* ------------------------------------------------------------ claims

\* C2: concurrent first-time InitPrometheus calls register every instrument
\* with the process-wide registry exactly once: no metric name is ever handed
\* to Register twice.
C2_RegisteredOnce == \A n \in MetricNames : regAttempts[n] <= 1

\* C3: once an InitPrometheus call has returned, a later call made after it
\* (with any configuration) returns at once and leaves the flags, the
\* instruments, their label keys and the registry as they are.
C3_ReinitIsNoOp ==
  [][ \A t \in Threads :
        ( /\ \E u \in Threads : treturned[u] >= 1
          /\ tcalls'[t] = tcalls[t] + 1 )
        => /\ UNCHANGED << initialized, labelEnabled, instr, registry,
                           regAttempts, panicked, series, tpc >>
           /\ treturned'[t] = treturned[t] + 1 ]_vars

C3_Witness ==
  /\ \E t \in Threads : tcalls[t] >= 2 /\ treturned[t] >= 2
  /\ \A v \in Instruments : instr[v] # Nil /\ registry[MetricName(v)] = instr[v]
  /\ ~panicked

\* C9: for every subset E of the four labels passed to the first
\* InitPrometheus call, buildCount is constructed with exactly the keys
\* E \cap {buildstrategy, namespace, build} and the other six instruments with
\* exactly the keys E, each key once and nothing else in the key list.
C9_LabelKeysOfSubset ==
  \A v \in Instruments :
    instr[v] # Nil =>
      LET E == SeqToSet(instr[v].cfg)
          keys == instr[v].labels
      IN /\ SeqToSet(keys) =
              IF v = "buildCount"
                THEN E \cap {BuildStrategyLabel, NamespaceLabel, BuildLabel}
                ELSE E
         /\ Len(keys) = Cardinality(SeqToSet(keys))
         /\ registry[MetricName(v)] \in {Nil, instr[v]}

C9_Witness ==
  /\ instr["buildCount"] # Nil
  /\ SeqToSet(instr["buildCount"].cfg) = {BuildRunLabel, NamespaceLabel}
  /\ instr["buildCount"].labels = << NamespaceLabel >>
  /\ instr["buildRunCount"].labels = << NamespaceLabel, BuildRunLabel >>
  /\ registry[MetricName("buildCount")] = instr["buildCount"]

\* C10: whenever an instrument exists, the label keys a record call builds from
\* the label-enabled flags are exactly the keys the instrument was constructed
\* with.
RecordKeys(v) ==
  IF v = "buildCount"
    THEN DOMAIN createBuildLabels("buildah", "team-a", "build-1")
    ELSE DOMAIN createBuildRunLabels("buildah", "team-a", "build-1", "br-1")

C10_RecordKeysMatch ==
  \A v \in Instruments :
    instr[v] # Nil => RecordKeys(v) = SeqToSet(instr[v].labels)

C4_ChainResolved ==
  \A r \in Replicas :
    (rpc[r] # "idle" /\ podNameEnv[r] \in DOMAIN ownerRefs /\ Acyclic(r)
       /\ HasController(PodOf(r))) =>
      LET chain == ChainOf(r)
      IN /\ nOwnerGets[r] <= Len(chain)
         /\ nPodGets[r] <= 1
         /\ rpc[r] = "resolved" =>
              /\ finalOwner[r] = chain[Len(chain)]
              /\ ~HasController(finalOwner[r].name)
              /\ nOwnerGets[r] = Len(chain)
              /\ nPodGets[r] = 1

\* Pod -> ReplicaSet -> Deployment, the Pod also carrying a reference that is
\* not a controller: two owner fetches, the Deployment returned.
C4_Witness ==
  /\ rpc[1] = "resolved"
  /\ ownerRefs[PodOf(1)] = << RefTo(1, FALSE), RefTo(1, TRUE) >>
  /\ ownerRefs[OwnerOf(1)] = << RefTo(2, TRUE) >>
  /\ ownerRefs[OwnerOf(2)] = << RefTo(1, FALSE) >>
  /\ finalOwner[1].kind = "Deployment"
  /\ nOwnerGets[1] = 2
  /\ nPodGets[1] = 1

\* C5: when the Pod has no controller owner reference (no reference at all, or
\* only references not marked as controller), resolution makes the Pod fetch
\* only and returns a controller reference to the Pod itself: kind Pod, API
\* version v1, the Pod's name.
C5_PodIsOwner ==
  \A r \in Replicas :
    (rpc[r] # "idle" /\ podNameEnv[r] \in DOMAIN ownerRefs
       /\ ~HasController(PodOf(r))) =>
      /\ nOwnerGets[r] = 0
      /\ rpc[r] # "findFinalOwnerRef"
      /\ rpc[r] = "resolved" =>
           /\ nPodGets[r] = 1
           /\ finalOwner[r] = [ apiVersion |-> "v1", kind |-> "Pod",
                                name |-> podNameEnv[r], controller |-> TRUE,
                                blockOwnerDeletion |-> TRUE ]

C5_Witness ==
  /\ rpc[1] = "resolved"
  /\ ownerRefs[PodOf(1)] = << RefTo(1, FALSE) >>
  /\ finalOwner[1].kind = "Pod"
  /\ finalOwner[1].name = PodOf(1)
  /\ nPodGets[1] = 1

\* C6: a publish call that finds a ClusterIP Service with an assigned address
\* in the store makes exactly one Create, one Get and one Update; the object it
\* sends carries the version token and the address it read, and ports,
\* selector and owner reference of the new descriptor.
C6_UpdateExisting ==
  \A r \in Replicas :
    ( /\ ValidCall(r) /\ ~faulty
      /\ storeAtCall[r] # Nil
      /\ storeAtCall[r].type = ServiceTypeClusterIP
      /\ storeAtCall[r].clusterIP # "" ) =>
      /\ rpc[r] = "update" =>
           svc[r] = [ NewService(servicePorts[r]) EXCEPT
                        !.ownerReferences = << finalOwner[r] >>,
                        !.resourceVersion = storeAtCall[r].resourceVersion,
                        !.clusterIP = storeAtCall[r].clusterIP ]
      /\ rpc[r] = "done" =>
           /\ result[r] = "ok"
           /\ nCreates[r] = 1 /\ nSvcGets[r] = 1 /\ nUpdates[r] = 1
           /\ existing[r] = storeAtCall[r]
           /\ svc[r].clusterIP = storeAtCall[r].clusterIP
           /\ svc[r].resourceVersion = storeAtCall[r].resourceVersion + 1
           /\ svc[r].ports = servicePorts[r]
           /\ svc[r].selector = [name |-> BuildControllerName]
           /\ svc[r].ownerReferences = << finalOwner[r] >>
           /\ OnlyCaller(r) => store = svc[r]

C6_Witness ==
  \E r \in Replicas :
    /\ rpc[r] = "done" /\ result[r] = "ok" /\ OnlyCaller(r)
    /\ storeAtCall[r] = OldService(ServiceTypeClusterIP)
    /\ nCreates[r] = 1 /\ nSvcGets[r] = 1 /\ nUpdates[r] = 1
    /\ store.clusterIP = "10.96.0.1"
    /\ store.ports = << ControllerPortName, CRPortName >>

\* C7: a publish call that finds no metrics Service in the store makes exactly
\* one Create, no Get of the Service and no Update, and returns the created
\* descriptor.
C7_FirstPublish ==
  \A r \in Replicas :
    (rpc[r] = "done" /\ ValidCall(r) /\ storeAtCall[r] = Nil) =>
      /\ nSvcGets[r] = 0 /\ nUpdates[r] = 0 /\ nCreates[r] <= 1
      /\ result[r] \in {"ok", "ErrCreate"} <=> nCreates[r] = 1
      /\ ~faulty => result[r] = "ok"
      /\ result[r] = "ok" =>
           /\ svc[r].ports = servicePorts[r]
           /\ svc[r].selector = [name |-> BuildControllerName]
           /\ svc[r].name = MetricsServiceName
           /\ svc[r].ownerReferences = << finalOwner[r] >>
           /\ svc[r].resourceVersion = 1
           /\ OnlyCaller(r) => store = svc[r]

C7_Witness ==
  \E r \in Replicas :
    /\ rpc[r] = "done" /\ result[r] = "ok" /\ OnlyCaller(r)
    /\ storeAtCall[r] = Nil
    /\ nCreates[r] = 1 /\ nSvcGets[r] = 0 /\ nUpdates[r] = 0
    /\ store = svc[r]

\* A step in which replica r issues its Update.
Updates(r) == nUpdates'[r] = nUpdates[r] + 1

\* C8 (as claimed): an Update issued by a publish call never drops or changes
\* the virtual address the stored Service has, whatever its service type.
C8_AddressNeverDropped ==
  [][ \A r \in Replicas :
        (Updates(r) /\ store # Nil /\ store.clusterIP # "") =>
          /\ svc[r].clusterIP = store.clusterIP
          /\ store'.clusterIP = store.clusterIP ]_vars

\* C8 (amended): an Update issued after reading a Service of type ClusterIP
\* carries the address read and, when the store accepts it, leaves the stored
\* address as it was; an Update issued after reading a Service of another type
\* carries no address.
C8_AddressKeptForClusterIP ==
  [][ \A r \in Replicas :
        Updates(r) =>
          /\ existing[r].type = ServiceTypeClusterIP =>
               /\ svc[r].clusterIP = existing[r].clusterIP
               /\ store' # store => store'.clusterIP = store.clusterIP
          /\ existing[r].type # ServiceTypeClusterIP => svc[r].clusterIP = "" ]_vars

C8_Witness ==
  \E r \in Replicas :
    /\ result[r] = "ok" /\ nUpdates[r] = 1
    /\ existing[r].type = ServiceTypeClusterIP
    /\ existing[r].clusterIP = "10.96.0.1"
    /\ store = svc[r]
    /\ store.clusterIP = "10.96.0.1"

\* ------------------------------------------- claims on record and observe

\* A step that is one record or observe call.
Records == nrecords' = nrecords + 1

\* Some InitPrometheus call has run to its end.
InitReturned == \E t \in Threads : treturned[t] >= 1

\* The argument a call gives for label l.
ArgOf(c, l) ==
  CASE l = BuildStrategyLabel -> c.buildStrategy
    [] l = NamespaceLabel -> c.namespace
    [] l = BuildLabel -> c.build
    [] l = BuildRunLabel -> c.buildRun

\* The arguments of call c projected onto the label set K.
Projection(c, K) == [l \in K |-> ArgOf(c, l)]

\* The enabled labels that apply to instrument v: those of the configuration
\* the instrument was built from, without buildrun for the builds counter.
EnabledFor(v) ==
  SeqToSet(instr[v].cfg)
    \cap (IF v = "buildCount"
            THEN {BuildStrategyLabel, NamespaceLabel, BuildLabel}
            ELSE AllLabels)

CounterOf(op) == IF op = "BuildCountInc" THEN "buildCount" ELSE "buildRunCount"

CountAt(f, m) == IF m \in DOMAIN f THEN f[m] ELSE 0

\* C11: after initialisation, a BuildCountInc or BuildRunCountInc call adds
\* exactly 1 to the one series of its counter whose label set is the call's
\* arguments projected onto the enabled labels, and leaves every other series,
\* every other instrument, the flags and the registry as they are.
C11_IncrementsOneSeries ==
  [][ ( /\ Records
        /\ InitReturned
        /\ lastCall'.op \in {"BuildCountInc", "BuildRunCountInc"} ) =>
      LET c == lastCall'
          v == CounterOf(c.op)
          m == Projection(c, EnabledFor(v))
      IN /\ ~panicked'
         /\ DOMAIN series'[v] = DOMAIN series[v] \cup {m}
         /\ series'[v][m] = CountAt(series[v], m) + 1
         /\ \A k \in DOMAIN series[v] \ {m} : series'[v][k] = series[v][k]
         /\ \A w \in Instruments \ {v} : series'[w] = series[w]
         /\ UNCHANGED << initialized, labelEnabled, instr, registry >> ]_vars

\* Enabled labels strategy and namespace: completions recorded for team-a and
\* for team-b stand in two series of the completion counter, each at 1, keyed
\* by strategy and namespace only.
C11_Witness ==
  /\ instr["buildRunCount"] # Nil
  /\ SeqToSet(instr["buildRunCount"].cfg) = {BuildStrategyLabel, NamespaceLabel}
  /\ lastCall # Nil
  /\ lastCall.op = "BuildRunCountInc"
  /\ lastCall.buildRun = "br-1"
  /\ DOMAIN series["buildRunCount"] =
       { [buildstrategy |-> "buildah", namespace |-> "team-a"],
         [buildstrategy |-> "buildah", namespace |-> "team-b"] }
  /\ \A m \in DOMAIN series["buildRunCount"] : series["buildRunCount"][m] = 1
  /\ \A w \in Instruments \ {"buildRunCount"} : series[w] = << >>

\* C12: an observe call with a negative duration leaves every histogram (count,
\* sum and buckets of every series) as it was, initialised or not.
C12_NegativeRejected ==
  [][ (Records /\ lastCall'.duration < 0) => series' = series ]_vars

\* C13: a record or observe call made before any InitPrometheus call returns
\* without a panic and leaves the initialized flag, the label flags, the
\* instruments, their series and the registry unchanged.
C13_RecordBeforeInitIsNoOp ==
  [][ (Records /\ \A t \in Threads : tcalls[t] = 0) =>
        /\ ~panicked'
        /\ UNCHANGED << initialized, labelEnabled, instr, registry, regAttempts,
                        series, tpc >> ]_vars

C13_Witness ==
  /\ \A t \in Threads : tcalls[t] = 0
  /\ nrecords >= 2
  /\ lastCall # Nil
  /\ lastCall.op = "TaskRunPodRampUpDurationObserve"
  /\ lastCall.duration = 3000
  /\ \A v \in Instruments : instr[v] = Nil /\ series[v] = << >>
  /\ ~initialized /\ ~panicked

\* C20: whenever an InitPrometheus call has returned, all seven instruments are
\* constructed and registered, with goroutines calling concurrently.
C20_ReturnedMeansReady ==
  InitReturned =>
    \A v \in Instruments : instr[v] # Nil /\ registry[MetricName(v)] # Nil

\* ------------------------------------------- claims on errors and writes

\* A step in which replica r issues its Create.
Creates(r) == nCreates'[r] = nCreates[r] + 1

\* The call of replica r ended because a fetch of owner resolution failed.
FetchFailed(res) == res \in {"ErrGetPod", "ErrGetOwner"}

\* C14: when a fetch of owner resolution fails (the Pod's or any owner's), the
\* call ends with that error at that very fetch: the Pod was fetched once, the
\* k-th owner fetch was of the k-th owner of the chain (no object is ever
\* fetched twice), no Create, Get of the Service or Update is ever issued by
\* the call, and no fetch follows.
C14_FetchFailureIsTerminal ==
  [][ \A r \in Replicas :
        /\ nPodGets'[r] <= 1
        /\ rpc'[r] # "idle" => nOwnerGets'[r] <= Len(ChainOf(r))
        /\ (result[r] = "none" /\ FetchFailed(result'[r])) =>
             /\ rpc'[r] = "done"
             /\ nPodGets'[r] + nOwnerGets'[r] = nPodGets[r] + nOwnerGets[r] + 1
             /\ nPodGets'[r] = 1
             /\ result'[r] = "ErrGetPod" => nOwnerGets'[r] = 0
             /\ result'[r] = "ErrGetOwner" =>
                  /\ nOwnerGets'[r] <= Len(ChainOf(r))
                  /\ ownerRef[r] = ChainOf(r)[nOwnerGets'[r]]
             /\ nCreates'[r] = 0 /\ nSvcGets'[r] = 0 /\ nUpdates'[r] = 0
             /\ store' = store
        /\ FetchFailed(result[r]) =>
             /\ result'[r] = result[r] /\ rpc'[r] = "done"
             /\ nPodGets'[r] = nPodGets[r] /\ nOwnerGets'[r] = nOwnerGets[r]
             /\ nCreates'[r] = 0 /\ nSvcGets'[r] = 0 /\ nUpdates'[r] = 0 ]_vars

\* The fetch of the second owner of the chain failed.
C14_Witness ==
  \E r \in Replicas :
    /\ result[r] = "ErrGetOwner" /\ rpc[r] = "done"
    /\ nPodGets[r] = 1 /\ nOwnerGets[r] = 2
    /\ nCreates[r] = 0 /\ nSvcGets[r] = 0 /\ nUpdates[r] = 0
    /\ store = storeAtCall[r]

\* The errors createOrUpdateService returns.
StoreErrors == {"ErrCreate", "ErrGetService", "ErrUpdate", "ErrConflict"}

\* C15: within one publish call a store failure other than already-exists on
\* the Create ends the call with that error and no further store call: never
\* more than one Create, one Get and one Update; a Create error ends it after
\* the Create, a Get error after the Get, an Update error or version conflict
\* after the Update; the failing call leaves the store as it was.
C15_StoreFailureIsTerminal ==
  [][ \A r \in Replicas :
        /\ nCreates'[r] <= 1 /\ nSvcGets'[r] <= 1 /\ nUpdates'[r] <= 1
        /\ nSvcGets'[r] <= nCreates'[r] /\ nUpdates'[r] <= nSvcGets'[r]
        /\ result'[r] = "ErrCreate" =>
             nCreates'[r] = 1 /\ nSvcGets'[r] = 0 /\ nUpdates'[r] = 0
        /\ result'[r] = "ErrGetService" =>
             nCreates'[r] = 1 /\ nSvcGets'[r] = 1 /\ nUpdates'[r] = 0
        /\ result'[r] \in {"ErrUpdate", "ErrConflict"} =>
             nCreates'[r] = 1 /\ nSvcGets'[r] = 1 /\ nUpdates'[r] = 1
        /\ (result[r] = "none" /\ result'[r] \in StoreErrors) =>
             rpc'[r] = "done" /\ store' = store
        /\ result[r] \in StoreErrors =>
             /\ result'[r] = result[r] /\ rpc'[r] = "done"
             /\ nCreates'[r] = nCreates[r] /\ nSvcGets'[r] = nSvcGets[r]
             /\ nUpdates'[r] = nUpdates[r] ]_vars

\* One replica's Get of the existing Service failed; the other's Update was
\* refused by the store.
C15_Witness ==
  \E r, q \in Replicas :
    /\ result[r] = "ErrGetService"
    /\ nCreates[r] = 1 /\ nSvcGets[r] = 1 /\ nUpdates[r] = 0
    /\ result[q] = "ErrUpdate"
    /\ nCreates[q] = 1 /\ nSvcGets[q] = 1 /\ nUpdates[q] = 1
    /\ store = storeAtCall[q]

\* C16: a publish call with an empty port list, or with POD_NAME unset, ends
\* with an error having issued no Get, Create or Update, and leaves the store
\* as it found it.
C16_ConfigErrorNoStoreCall ==
  \A r \in Replicas :
    /\ Len(servicePorts[r]) < 1 =>
         /\ rpc[r] \in {"idle", "done"}
         /\ rpc[r] = "done" => result[r] = "ErrEmptyPorts"
    /\ (Len(servicePorts[r]) >= 1 /\ podNameEnv[r] = "") =>
         /\ rpc[r] \in {"idle", "getPod", "done"}
         /\ rpc[r] = "done" => result[r] \in {"ErrEnvNotSet", "ErrNewClient"}
         /\ (rpc[r] = "done" /\ ~faulty) => result[r] = "ErrEnvNotSet"
    /\ (Len(servicePorts[r]) < 1 \/ podNameEnv[r] = "") =>
         /\ nPodGets[r] = 0 /\ nOwnerGets[r] = 0
         /\ nCreates[r] = 0 /\ nSvcGets[r] = 0 /\ nUpdates[r] = 0
         /\ (rpc[r] = "done" /\ OnlyCaller(r)) => store = storeAtCall[r]

\* One call with no ports and one with ports but no POD_NAME have both ended.
C16_Witness ==
  \E r, q \in Replicas :
    /\ servicePorts[r] = << >> /\ result[r] = "ErrEmptyPorts"
    /\ servicePorts[q] # << >> /\ podNameEnv[q] = ""
    /\ result[q] = "ErrEnvNotSet"
    /\ store # Nil /\ store = storeAtCall[q]

\* The Final Owner of replica r's Pod: the last owner of its chain, or the Pod
\* itself when it has no controller.
FinalOwnerOf(r) ==
  IF HasController(PodOf(r))
    THEN ChainOf(r)[Len(ChainOf(r))]
    ELSE [ apiVersion |-> "v1", kind |-> "Pod", name |-> PodOf(r),
           controller |-> TRUE, blockOwnerDeletion |-> TRUE ]

\* C17: whenever a publish call issues its Create or its Update, owner
\* resolution has completed in that call, and the object sent, and stored when
\* the store accepts it, carries exactly one owner reference: the Final Owner
\* of the caller's Pod.
C17_WrittenWithOwner ==
  [][ \A r \in Replicas :
        (Creates(r) \/ Updates(r)) =>
          /\ nPodGets[r] = 1
          /\ finalOwner[r] # Nil
          /\ finalOwner[r] = FinalOwnerOf(r)
          /\ svc[r].ownerReferences = << finalOwner[r] >>
          /\ store' # store =>
               /\ store' # Nil
               /\ store'.ownerReferences = << FinalOwnerOf(r) >> ]_vars

\* Pod -> ReplicaSet -> Deployment: the Service was updated and is owned by
\* the Deployment alone.
C17_Witness ==
  \E r \in Replicas :
    /\ result[r] = "ok" /\ nUpdates[r] = 1 /\ nOwnerGets[r] = 2
    /\ store = svc[r]
    /\ store.ownerReferences = << RefTo(2, TRUE) >>

\* C18: publish calls made one after the other with the same ports and the
\* same Final Owner against a store that does not fail all succeed, and any two
\* of them leave the one Service of the stable name and namespace with the same
\* ports, selector, labels, owner reference, type and virtual address; only the
\* version token differs.
C18_PublishIdempotent ==
  /\ \A r \in Replicas :
       (rpc[r] = "done" /\ ValidCall(r) /\ ~faulty) => result[r] = "ok"
  /\ (\E r \in Replicas : result[r] = "ok") =>
       /\ store # Nil
       /\ store.name = MetricsServiceName
       /\ store.namespace = LeaderElectionNamespace
       /\ \E r \in Replicas : result[r] = "ok" /\ store = svc[r]
  /\ \A r, q \in Replicas :
       ( /\ result[r] = "ok" /\ result[q] = "ok"
         /\ servicePorts[r] = servicePorts[q]
         /\ finalOwner[r] = finalOwner[q] ) =>
         /\ SameService(svc[r], svc[q])
         /\ svc[r].ownerReferences = svc[q].ownerReferences
         /\ svc[r].ports = servicePorts[r]
         /\ svc[r].selector = [name |-> BuildControllerName]
         /\ svc[r].clusterIP = svc[q].clusterIP

\* The first call created the Service, the second updated it: same address,
\* same owner, the next version token.
C18_Witness ==
  \E r, q \in Replicas :
    /\ result[r] = "ok" /\ nCreates[r] = 1 /\ nUpdates[r] = 0
    /\ storeAtCall[r] = Nil
    /\ result[q] = "ok" /\ nUpdates[q] = 1
    /\ finalOwner[r] = finalOwner[q]
    /\ store = svc[q]
    /\ store.clusterIP = svc[r].clusterIP /\ store.clusterIP # ""
    /\ store.resourceVersion = svc[r].resourceVersion + 1

\* C19: with every fetch succeeding, owner resolution returns if and only if
\* the chain of controller references from the Pod is acyclic: on an acyclic
\* chain it eventually returns; on a chain that runs into a cycle it never
\* returns and goes on fetching (as far as the model follows it).
C19_TerminatesIffAcyclic ==
  /\ (~faulty /\ Acyclic(1)) ~> (rpc[1] = "resolved")
  /\ []((~faulty /\ ~Acyclic(1)) =>
          /\ rpc[1] \notin {"resolved", "done"}
          /\ finalOwner[1] = Nil /\ result[1] = "none")
  /\ (~faulty /\ ~Acyclic(1)) ~>
       (rpc[1] = "findFinalOwnerRef" /\ nOwnerGets[1] = MaxFetch)

\* A cycle of two owners reached from the Pod: the call is still fetching.
C19_Witness ==
  /\ ownerRefs[PodOf(1)] = << RefTo(1, TRUE) >>
  /\ ownerRefs[OwnerOf(1)] = << RefTo(2, TRUE) >>
  /\ ownerRefs[OwnerOf(2)] = << RefTo(1, TRUE) >>
  /\ ~Acyclic(1)
  /\ rpc[1] = "findFinalOwnerRef"
  /\ nOwnerGets[1] = MaxFetch

====
